---- MODULE Spec2Model ----
(***************************************************************************)
(* blort: the visit registry of src/main.rs.                               *)
(*                                                                         *)
(* The store is the table `items` (name, count, last_seen).  hello_name    *)
(* is the RecordVisit operation: a SELECT of the name's row followed by a  *)
(* separate INSERT ... ON CONFLICT (name) DO UPDATE.  Each of the two      *)
(* statements is one atomic step at the store; request handlers run        *)
(* concurrently and interleave between the two statements.                 *)
(* clear_database is ClearAll (TRUNCATE) and show_names is ListTop.        *)
(***************************************************************************)
EXTENDS Integers, Sequences, FiniteSets, TLC

\* ---------------------------------------------------------------- bounds
\* Largest number of visits of one name that are applied between two clears,
\* and largest number of calls in one burst of overlapping calls.
MaxCount == 2
\* The store's clock NOW() takes the values 0..MaxTime.
MaxTime == 1

Names == {"alice", "bob"}
Tasks == {"t1", "t2"}
Times == 0..MaxTime

\* ----------------------------------------------------- program constants
\* i32::MAX, the largest value of the `limit as i32` cast.
I32Max == 2147483647

\* Option<T>: None and Some(x).
None == <<>>
Some(x) == <<x>>

\* A u32 is kept as its top bit and its low 31 bits: value = hi * 2^31 + lo.
U32(h, l) == [hi |-> h, lo |-> l]
\* The limits handed to show_names: 0, 1, 2, the default 10, i32::MAX,
\* 2^31 and u32::MAX.
Limits == {U32(0, 0), U32(0, 1), U32(0, 2), U32(0, 10), U32(0, I32Max),
           U32(1, 0), U32(1, I32Max)}
Orders == {"LastSeen", "Visits"}

VARIABLES
    items,           \* the table: a set of rows [name, count, last_seen]
    now,             \* the store's clock, the value of NOW()
    pc,              \* per task: "idle", "select", "upsert", "ok", "err", "gone"
    name,            \* per task: the Path(name) of the request it serves
    previous_count,  \* per task: hello_name's local previous_count
    last_seen,       \* per task: hello_name's local last_seen (an Option)
    applied,         \* history: per name, upserts applied since the last clear
    did,             \* history: per task, upserts applied by its current call
    burst,           \* history: per name, the current burst of overlapping calls
    seq,             \* history: per name, calls of an unbroken sequential run
    cleared,         \* history: a clear ran and no upsert was applied since
    cli,             \* what the CLI command run in the last step returned
    lastVisit,       \* history: per name, NOW() of the last applied upsert
    window,          \* history: per call in flight, the states (count,
                     \* last_seen) its name's record held since it began
    clearSeen        \* history: per call in flight, a clear ran since it began

vars == <<items, now, pc, name, previous_count, last_seen,
          applied, did, burst, seq, cleared, cli,
          lastVisit, window, clearSeen>>

\* -------------------------------------------------------------- the store
Row(n, c, ts) == [name |-> n, count |-> c, last_seen |-> ts]

\* SELECT ... FROM items WHERE name = $1
SelectByName(rows, n) == {r \in rows : r.name = n}

\* fetch_optional: the first row of the result, if there is one.
FetchOptional(rows) ==
    IF rows = {} THEN {None} ELSE {Some(r) : r \in rows}

\* The stored count of a name, 0 when it has no row.
CountOf(rows, n) ==
    IF SelectByName(rows, n) = {} THEN 0
    ELSE (CHOOSE r \in SelectByName(rows, n) : TRUE).count

\* The stored last_seen of a name, as an Option.
LastSeenOf(rows, n) ==
    IF SelectByName(rows, n) = {} THEN None
    ELSE Some((CHOOSE r \in SelectByName(rows, n) : TRUE).last_seen)

\* Mutant: ON CONFLICT (name) DO NOTHING.
UpsertRowsDoNothing(rows, n, ts) ==
    IF SelectByName(rows, n) = {} THEN rows \cup {Row(n, 1, ts)} ELSE rows

\* Mutant: a plain INSERT, no conflict target.
InsertRows(rows, n, ts) == rows \cup {Row(n, 1, ts)}

\* Mutant: the conflict action updates every row of the table.
UpsertRowsAll(rows, n, ts) ==
    IF SelectByName(rows, n) = {}
    THEN rows \cup {Row(n, 1, ts)}
    ELSE {Row(r.name, r.count + 1, ts) : r \in rows}

\* Mutant: the conflict action adds 2 to the count.
UpsertRowsPlusTwo(rows, n, ts) ==
    IF SelectByName(rows, n) = {}
    THEN rows \cup {Row(n, 1, ts)}
    ELSE {IF r.name = n THEN Row(n, r.count + 2, ts) ELSE r : r \in rows}

\* Mutant: the conflict action refreshes last_seen and leaves the count.
UpsertRowsSeenOnly(rows, n, ts) ==
    IF SelectByName(rows, n) = {}
    THEN rows \cup {Row(n, 1, ts)}
    ELSE {IF r.name = n THEN Row(n, r.count, ts) ELSE r : r \in rows}

\* Mutant: the conflict action raises the count and leaves last_seen.
UpsertRowsCountOnly(rows, n, ts) ==
    IF SelectByName(rows, n) = {}
    THEN rows \cup {Row(n, 1, ts)}
    ELSE {IF r.name = n THEN Row(n, r.count + 1, r.last_seen) ELSE r :
            r \in rows}

\* INSERT INTO items (name, count, last_seen) VALUES ($1, 1, NOW())
\* ON CONFLICT (name) DO UPDATE SET count = items.count + 1, last_seen = NOW()
UpsertRows(rows, n, ts) ==
    IF SelectByName(rows, n) = {}
    THEN rows \cup {Row(n, 1, ts)}
    ELSE {IF r.name = n THEN Row(n, r.count + 1, ts) ELSE r : r \in rows}

\* Mutant: the TRUNCATE leaves the rows in place.
TruncateNothing(rows) == rows

\* TRUNCATE TABLE items
TruncateRows(rows) == {}

\* ------------------------------------------------------------ show_names
\* `limit as i32`: the u32 reinterpreted as a two's-complement i32.
AsI32(u) == IF u.hi = 1 THEN (u.lo - I32Max) - 1 ELSE u.lo

\* Mutant: the two match arms of `order` swapped.
SortKeySwapped(order, r) == IF order = "LastSeen" THEN r.count ELSE r.last_seen

\* The column a query orders by.
SortKey(order, r) == IF order = "LastSeen" THEN r.last_seen ELSE r.count

\* One row into a sequence that is sorted descending on the key, behind the
\* rows whose key is not smaller.
RECURSIVE InsertDesc(_, _, _)
InsertDesc(order, r, s) ==
    IF s = <<>> THEN <<r>>
    ELSE IF SortKey(order, Head(s)) >= SortKey(order, r)
         THEN <<Head(s)>> \o InsertDesc(order, r, Tail(s))
         ELSE <<r>> \o s

\* ORDER BY <key> DESC over the rows in the order the scan delivers them.
RECURSIVE OrderByDesc(_, _)
OrderByDesc(order, scan) ==
    IF scan = <<>> THEN <<>>
    ELSE InsertDesc(order, scan[Len(scan)],
                    OrderByDesc(order, SubSeq(scan, 1, Len(scan) - 1)))

\* LIMIT k
LimitRows(s, k) == IF k < Len(s) THEN SubSeq(s, 1, k) ELSE s

\* The orders in which a scan of the table can deliver its rows.
Scans(rows) ==
    {s \in [1..Cardinality(rows) -> rows] :
        \A i, j \in 1..Cardinality(rows) : i # j => s[i] # s[j]}

\* ------------------------------------------------------- the CLI commands
\* What the command run in the last step returned.
CliResult(c, o, f, l, by, rs) ==
    [cmd |-> c, ok |-> o, fault |-> f, limit |-> l, order |-> by, rows |-> rs]
NoCli == CliResult("none", TRUE, FALSE, U32(0, 0), "LastSeen", <<>>)

\* SELECT name, count, last_seen FROM items ORDER BY <key> DESC LIMIT $1.
\* The store rejects a negative LIMIT and fetch_all(..).await? returns Err.
ShowNames(rows, limit, order, scan) ==
    IF AsI32(limit) < 0
    THEN CliResult("show", FALSE, FALSE, limit, order, <<>>)
    ELSE CliResult("show", TRUE, FALSE, limit, order,
                   LimitRows(OrderByDesc(order, scan), AsI32(limit)))

\* ------------------------------------------------------------ hello_name
InFlight(n) == {t \in Tasks : name[t] = n /\ pc[t] \in {"select", "upsert"}}

NoBurst == [base |-> 0, n |-> 0, clean |-> TRUE]
\* A burst that a fault, an abandoned call or a clear has spoilt.
SpoiltBurst == [base |-> 0, n |-> 0, clean |-> FALSE]

\* What a call for n would be given as (previous_count, last_seen).
Prior(rows, n) == <<CountOf(rows, n), LastSeenOf(rows, n)>>

\* The history of the calls in flight after a step: the state the name's
\* record is left in joins the call's window, and a clear is remembered.
Observe(isClear) ==
    /\ window' = [u \in Tasks |->
            IF pc'[u] \in {"select", "upsert"}
            THEN (IF pc[u] \in {"select", "upsert"} THEN window[u] ELSE {})
                    \cup {Prior(items', name'[u])}
            ELSE {}]
    /\ clearSeen' = [u \in Tasks |->
            /\ pc'[u] \in {"select", "upsert"}
            /\ pc[u] \in {"select", "upsert"}
            /\ (isClear \/ clearSeen[u])]

\* The response string, by the values it is formatted from.
Response(t) ==
    IF last_seen[t] # None
    THEN [kind |-> "repeat", name |-> name[t],
          count |-> previous_count[t], last_seen |-> last_seen[t][1]]
    ELSE [kind |-> "first", name |-> name[t]]

Init ==
    /\ items = {}
    /\ now = 0
    /\ pc = [t \in Tasks |-> "idle"]
    /\ name = [t \in Tasks |-> "alice"]
    /\ previous_count = [t \in Tasks |-> 0]
    /\ last_seen = [t \in Tasks |-> None]
    /\ applied = [n \in Names |-> 0]
    /\ did = [t \in Tasks |-> 0]
    /\ burst = [n \in Names |-> NoBurst]
    /\ seq = [n \in Names |-> 0]
    /\ cleared = FALSE
    /\ cli = NoCli
    /\ lastVisit = [n \in Names |-> None]
    /\ window = [t \in Tasks |-> {}]
    /\ clearSeen = [t \in Tasks |-> FALSE]

\* The store's clock advances.
Tick ==
    /\ now < MaxTime
    /\ now' = now + 1
    /\ cli' = NoCli
    /\ UNCHANGED <<items, pc, name, previous_count, last_seen,
                   applied, did, burst, seq, cleared>>
    /\ UNCHANGED <<lastVisit, window, clearSeen>>

\* A request GET /hello/{n} arrives and task t starts hello_name.
Begin(t, n) ==
    /\ pc[t] = "idle"
    /\ applied[n] + Cardinality(InFlight(n)) < MaxCount
    /\ (InFlight(n) # {} /\ burst[n].clean) => burst[n].n < MaxCount
    /\ pc' = [pc EXCEPT ![t] = "select"]
    /\ name' = [name EXCEPT ![t] = n]
    /\ did' = [did EXCEPT ![t] = 0]
    /\ burst' = [burst EXCEPT ![n] =
                    IF InFlight(n) = {}
                    THEN [base |-> CountOf(items, n), n |-> 1, clean |-> TRUE]
                    ELSE IF @.clean THEN [@ EXCEPT !.n = @ + 1] ELSE @]
    /\ seq' = [seq EXCEPT ![n] = IF InFlight(n) = {} THEN @ ELSE -1]
    /\ cli' = NoCli
    /\ UNCHANGED <<items, now, previous_count, last_seen, applied, cleared>>
    /\ UNCHANGED lastVisit
    /\ Observe(FALSE)

\* Mutant: the SELECT has no WHERE clause and reads any row of the table.
SelectAny(t) ==
    /\ pc[t] = "select"
    /\ \E existing \in FetchOptional(items) :
          /\ previous_count' = [previous_count EXCEPT ![t] =
                IF existing = None THEN 0 ELSE existing[1].count]
          /\ last_seen' = [last_seen EXCEPT ![t] =
                IF existing = None THEN None ELSE Some(existing[1].last_seen)]
    /\ pc' = [pc EXCEPT ![t] = "upsert"]
    /\ cli' = NoCli
    /\ UNCHANGED <<items, now, name, applied, did, burst, seq, cleared>>
    /\ UNCHANGED lastVisit
    /\ Observe(FALSE)

\* Lines 51-59: the SELECT succeeds and the locals are bound.
Select(t) ==
    /\ pc[t] = "select"
    /\ \E existing \in FetchOptional(SelectByName(items, name[t])) :
          /\ previous_count' = [previous_count EXCEPT ![t] =
                IF existing = None THEN 0 ELSE existing[1].count]
          /\ last_seen' = [last_seen EXCEPT ![t] =
                IF existing = None THEN None ELSE Some(existing[1].last_seen)]
    /\ pc' = [pc EXCEPT ![t] = "upsert"]
    /\ cli' = NoCli
    /\ UNCHANGED <<items, now, name, applied, did, burst, seq, cleared>>
    /\ UNCHANGED lastVisit
    /\ Observe(FALSE)

\* A call that ends without Ok (its locals are dropped): its burst and its
\* sequential run are spoilt.
Leave(t, to) ==
    /\ pc' = [pc EXCEPT ![t] = to]
    /\ previous_count' = [previous_count EXCEPT ![t] = 0]
    /\ last_seen' = [last_seen EXCEPT ![t] = None]
    /\ burst' = [burst EXCEPT ![name[t]] = SpoiltBurst]
    /\ seq' = [seq EXCEPT ![name[t]] = -1]
    /\ cli' = NoCli

\* A call that returns Err.
Fail(t) == Leave(t, "err")

\* Line 54: the SELECT fails and `?` returns Err("Database error: ..").
SelectFail(t) ==
    /\ pc[t] = "select"
    /\ Fail(t)
    /\ UNCHANGED <<items, now, name, applied, did, cleared>>
    /\ UNCHANGED lastVisit
    /\ Observe(FALSE)

\* Mutant: the write is computed from the count the call read before
\* (SELECT, then a separate INSERT or UPDATE to previous_count + 1).
UpsertStale(t) ==
    /\ pc[t] = "upsert"
    /\ items' = (items \ SelectByName(items, name[t]))
                    \cup {Row(name[t], previous_count[t] + 1, now)}
    /\ pc' = [pc EXCEPT ![t] = "ok"]
    /\ applied' = [applied EXCEPT ![name[t]] = @ + 1]
    /\ did' = [did EXCEPT ![t] = @ + 1]
    /\ seq' = [seq EXCEPT ![name[t]] = IF @ >= 0 THEN @ + 1 ELSE -1]
    /\ cleared' = FALSE
    /\ cli' = NoCli
    /\ UNCHANGED <<now, name, previous_count, last_seen, burst>>
    /\ lastVisit' = [lastVisit EXCEPT ![name[t]] = Some(now)]
    /\ Observe(FALSE)

\* Lines 62-82: the upsert succeeds and the call returns Ok(response).
Upsert(t) ==
    /\ pc[t] = "upsert"
    /\ items' = UpsertRows(items, name[t], now)
    /\ pc' = [pc EXCEPT ![t] = "ok"]
    /\ applied' = [applied EXCEPT ![name[t]] = @ + 1]
    /\ did' = [did EXCEPT ![t] = @ + 1]
    /\ seq' = [seq EXCEPT ![name[t]] = IF @ >= 0 THEN @ + 1 ELSE -1]
    /\ cleared' = FALSE
    /\ cli' = NoCli
    /\ UNCHANGED <<now, name, previous_count, last_seen, burst>>
    /\ lastVisit' = [lastVisit EXCEPT ![name[t]] = Some(now)]
    /\ Observe(FALSE)

\* Mutant: the error is returned after the write was applied.
UpsertFailApplied(t) ==
    /\ pc[t] = "upsert"
    /\ Fail(t)
    /\ items' = UpsertRows(items, name[t], now)
    /\ UNCHANGED <<now, name, applied, did, cleared>>
    /\ lastVisit' = [lastVisit EXCEPT ![name[t]] = Some(now)]
    /\ Observe(FALSE)

\* Line 71: the upsert statement fails, nothing of it is applied, and `?`
\* returns Err("Database error: ..").
UpsertFail(t) ==
    /\ pc[t] = "upsert"
    /\ Fail(t)
    /\ UNCHANGED <<items, now, name, applied, did, cleared>>
    /\ UNCHANGED lastVisit
    /\ Observe(FALSE)

\* The client went away and the handler's future is dropped at its first
\* await, or at its second before the statement reached the store.
Abandon(t) ==
    /\ pc[t] \in {"select", "upsert"}
    /\ Leave(t, "gone")
    /\ UNCHANGED <<items, now, name, applied, did, cleared>>
    /\ UNCHANGED lastVisit
    /\ Observe(FALSE)

\* The future is dropped while the upsert is in flight: the store has the
\* statement and applies it, and nobody takes its result.
AbandonInFlight(t) ==
    /\ pc[t] = "upsert"
    /\ Leave(t, "gone")
    /\ items' = UpsertRows(items, name[t], now)
    /\ applied' = [applied EXCEPT ![name[t]] = @ + 1]
    /\ did' = [did EXCEPT ![t] = @ + 1]
    /\ cleared' = FALSE
    /\ UNCHANGED <<now, name>>
    /\ lastVisit' = [lastVisit EXCEPT ![name[t]] = Some(now)]
    /\ Observe(FALSE)

\* The response is delivered, or the dropped future is gone, and the
\* handler's locals are dropped.
Return(t) ==
    /\ pc[t] \in {"ok", "err", "gone"}
    /\ pc' = [pc EXCEPT ![t] = "idle"]
    /\ name' = [name EXCEPT ![t] = "alice"]
    /\ previous_count' = [previous_count EXCEPT ![t] = 0]
    /\ last_seen' = [last_seen EXCEPT ![t] = None]
    /\ did' = [did EXCEPT ![t] = 0]
    /\ cli' = NoCli
    /\ UNCHANGED <<items, now, applied, burst, seq, cleared>>
    /\ UNCHANGED lastVisit
    /\ Observe(FALSE)

\* ----------------------------------------------------------- the commands
\* `blort clear`: the TRUNCATE succeeds.
Clear ==
    /\ items' = TruncateRows(items)
    /\ applied' = [n \in Names |-> 0]
    /\ cleared' = TRUE
    /\ burst' = [n \in Names |->
                    IF InFlight(n) = {} THEN NoBurst
                    ELSE SpoiltBurst]
    /\ seq' = [n \in Names |-> IF InFlight(n) = {} THEN 0 ELSE -1]
    /\ cli' = CliResult("clear", TRUE, FALSE, U32(0, 0), "LastSeen", <<>>)
    /\ UNCHANGED <<now, pc, name, previous_count, last_seen, did>>
    /\ lastVisit' = [n \in Names |-> None]
    /\ Observe(TRUE)

\* `blort clear`: the TRUNCATE fails with a store fault and `?` returns Err.
ClearFail ==
    /\ cli' = CliResult("clear", FALSE, TRUE, U32(0, 0), "LastSeen", <<>>)
    /\ UNCHANGED <<items, now, pc, name, previous_count, last_seen,
                   applied, did, burst, seq, cleared>>
    /\ UNCHANGED <<lastVisit, window, clearSeen>>

\* `blort show --limit l --order o`.
Show(limit, order) ==
    /\ \E scan \in Scans(items) : cli' = ShowNames(items, limit, order, scan)
    /\ UNCHANGED <<items, now, pc, name, previous_count, last_seen,
                   applied, did, burst, seq, cleared>>
    /\ UNCHANGED <<lastVisit, window, clearSeen>>

\* `blort show`: the query fails with a store fault and `?` returns Err.
ShowFail(limit, order) ==
    /\ cli' = CliResult("show", FALSE, TRUE, limit, order, <<>>)
    /\ UNCHANGED <<items, now, pc, name, previous_count, last_seen,
                   applied, did, burst, seq, cleared>>
    /\ UNCHANGED <<lastVisit, window, clearSeen>>

\* The web server and `blort clear` runs against the same store.
Next ==
    \/ Tick
    \/ \E t \in Tasks, n \in Names : Begin(t, n)
    \/ \E t \in Tasks : Select(t)
    \/ \E t \in Tasks : SelectFail(t)
    \/ \E t \in Tasks : Upsert(t)
    \/ \E t \in Tasks : UpsertFail(t)
    \/ \E t \in Tasks : Abandon(t)
    \/ \E t \in Tasks : AbandonInFlight(t)
    \/ \E t \in Tasks : Return(t)
    \/ Clear
    \/ ClearFail

Spec == Init /\ [][Next]_vars

\* The CLI commands run against the store of a server that handles one
\* request at a time: every table the server can produce, `blort clear` and
\* `blort show`.
NextCli ==
    \/ Tick
    \/ \E n \in Names : Begin("t1", n)
    \/ Select("t1")
    \/ SelectFail("t1")
    \/ Upsert("t1")
    \/ UpsertFail("t1")
    \/ Return("t1")
    \/ Clear
    \/ ClearFail
    \/ \E l \in Limits, o \in Orders : Show(l, o)
    \/ \E l \in Limits, o \in Orders : ShowFail(l, o)

SpecCli == Init /\ [][NextCli]_vars

\* ================================================================ claims
Range(s) == {s[i] : i \in 1..Len(s)}

\* min(u, k) for a u32 u and a small natural k.
MinU32(u, k) == IF u.hi = 1 THEN k ELSE IF u.lo < k THEN u.lo ELSE k

\* Task t takes the step that completes its call with Ok.
Completes(t) == pc[t] = "upsert" /\ pc'[t] = "ok"

\* C1: no lost updates.  When every call of a burst of N overlapping calls
\* for a name has completed, with no clear and no store fault during the
\* burst, the stored count is the count before the burst plus N.
NoLostUpdates ==
    \A n \in Names :
        (InFlight(n) = {} /\ burst[n].n >= 1 /\ burst[n].clean)
            => CountOf(items, n) = burst[n].base + burst[n].n

\* Two calls for one name that both read "absent" have both completed.
NoLostUpdatesWitness ==
    /\ pc["t1"] = "ok" /\ pc["t2"] = "ok"
    /\ name["t1"] = name["t2"]
    /\ previous_count["t1"] = 0 /\ previous_count["t2"] = 0
    /\ burst[name["t1"]].n = 2 /\ burst[name["t1"]].clean
    /\ CountOf(items, name["t1"]) = 2

\* C2: read/write coherence.  The (previousCount, previousLastSeen) a
\* successful call returns are the count and last_seen the name's record held
\* immediately before the call's own write (0 and none when it had no record).
ReadWriteCoherence ==
    [][\A t \in Tasks :
          Completes(t) =>
              /\ previous_count[t] = CountOf(items, name[t])
              /\ last_seen[t] = LastSeenOf(items, name[t])]_vars

\* C3: sequential visits.  The k-th call of an unbroken run of sequential
\* calls that starts with no record for the name returns previousCount = k-1,
\* previousLastSeen = none exactly when k = 1, and leaves the count at k.
SequentialVisits ==
    [][\A t \in Tasks :
          (Completes(t) /\ seq[name[t]] >= 0) =>
              /\ previous_count[t] = seq[name[t]]
              /\ (last_seen[t] = None) <=> (seq[name[t]] = 0)
              /\ (Response(t).kind = "first") <=> (seq[name[t]] = 0)
              /\ CountOf(items', name[t]) = seq[name[t]] + 1
              /\ seq'[name[t]] = seq[name[t]] + 1]_vars

\* The second of two sequential calls has returned previousCount = 1.
SequentialVisitsWitness ==
    \E t \in Tasks :
        /\ pc[t] = "ok"
        /\ seq[name[t]] = 2
        /\ previous_count[t] = 1
        /\ CountOf(items, name[t]) = 2

\* C4: uniqueness.  The table holds at most one row per name.
UniqueNames ==
    \A r1, r2 \in items : r1.name = r2.name => r1 = r2

\* Two first visits for one name that both read "absent" were both applied.
UniqueNamesWitness ==
    /\ pc["t1"] = "ok" /\ pc["t2"] = "ok"
    /\ name["t1"] = name["t2"]
    /\ last_seen["t1"] = None /\ last_seen["t2"] = None
    /\ Cardinality(SelectByName(items, name["t1"])) = 1

ClearAllIdempotent ==
    /\ (cli.cmd = "clear" /\ ~cli.fault) => (cli.ok /\ items = {})
    /\ cleared => items = {}
    /\ (cli.cmd = "show" /\ ~cli.fault /\ cleared) =>
            (cli.ok /\ cli.rows = <<>>)

\* C7: ListTop size bound.  For every u32 limit and both orders a show
\* returns exactly min(limit, number of stored rows) rows.
ListTopSizeBound ==
    (cli.cmd = "show" /\ ~cli.fault) =>
        /\ cli.ok
        /\ Len(cli.rows) = MinU32(cli.limit, Cardinality(items))

\* C8: ListTop ordering.  The rows a show returns are stored rows, each
\* once, in non-increasing order of the sort key, and no row left out has
\* a larger key than a returned one.
ListTopOrdering ==
    (cli.cmd = "show" /\ cli.ok) =>
        /\ Range(cli.rows) \subseteq items
        /\ Cardinality(Range(cli.rows)) = Len(cli.rows)
        /\ \A i, j \in 1..Len(cli.rows) :
              i < j => (IF cli.order = "Visits"
                        THEN cli.rows[i].count >= cli.rows[j].count
                        ELSE cli.rows[i].last_seen >= cli.rows[j].last_seen)
        /\ \A i \in 1..Len(cli.rows) : \A r \in items \ Range(cli.rows) :
              IF cli.order = "Visits"
              THEN cli.rows[i].count >= r.count
              ELSE cli.rows[i].last_seen >= r.last_seen

\* alice was visited twice and then bob once, later: by visits alice comes
\* first, although bob was seen last.
ListTopOrderingWitness ==
    /\ cli.cmd = "show" /\ cli.ok
    /\ cli.order = "Visits" /\ cli.limit = U32(0, 10)
    /\ Len(cli.rows) = 2
    /\ cli.rows[1].name = "alice" /\ cli.rows[1].count = 2
    /\ cli.rows[2].name = "bob" /\ cli.rows[2].count = 1
    /\ cli.rows[2].last_seen > cli.rows[1].last_seen

\* C9: independence of names.  A step of a call for name n leaves the rows
\* of every other name as they were, and the values the call reads are those
\* of n's own row (0 and none when n has no row).
NamesIndependent ==
    [][\A t \in Tasks :
          pc'[t] # pc[t] =>
              /\ \A m \in Names \ {name'[t]} :
                    SelectByName(items', m) = SelectByName(items, m)
              /\ (pc'[t] = "upsert") =>
                    /\ previous_count'[t] = CountOf(items, name[t])
                    /\ last_seen'[t] = LastSeenOf(items, name[t])]_vars

\* A call for alice has completed while bob has a record and a call for bob
\* is between its read and its write.
NamesIndependentWitness ==
    \E t, u \in Tasks :
        /\ pc[t] = "ok" /\ name[t] = "alice"
        /\ pc[u] = "upsert" /\ name[u] = "bob"
        /\ CountOf(items, "bob") >= 1
        /\ CountOf(items, "alice") >= 1

\* C10: exactly-once accounting.  The stored count of every name is the
\* number of upserts applied for it since the last clear; a call applies at
\* most one upsert, one when it has returned Ok and none when it has returned
\* an error.
ExactlyOnce ==
    /\ \A n \in Names : CountOf(items, n) = applied[n]
    /\ \A t \in Tasks :
          /\ did[t] <= 1
          /\ pc[t] = "ok" => did[t] = 1
          /\ pc[t] \in {"idle", "select", "upsert", "err"} => did[t] = 0

\* A call read count 1, a clear ran, and the call's upsert then created the
\* record anew with count 1.
ExactlyOnceWitness ==
    \E t \in Tasks :
        /\ pc[t] = "ok"
        /\ previous_count[t] = 1
        /\ applied[name[t]] = 1
        /\ CountOf(items, name[t]) = 1

\* The step is a successful `blort clear`.
ClearStep == cli'.cmd = "clear" /\ cli'.ok

\* C11: monotonic lifecycle.  Across a step that is not a ClearAll a present
\* record stays present and its count stays or grows by exactly 1; a ClearAll
\* removes all records at once.
MonotonicLifecycle ==
    [][IF ClearStep
       THEN items' = {}
       ELSE \A n \in Names :
              CountOf(items, n) >= 1 =>
                  /\ SelectByName(items', n) # {}
                  /\ CountOf(items', n) \in
                        {CountOf(items, n), CountOf(items, n) + 1}]_vars

\* A record has grown to count 2 past a call for its name that failed.
MonotonicLifecycleWitness ==
    \E t, u \in Tasks :
        /\ pc[t] = "err" /\ pc[u] = "ok"
        /\ name[t] = name[u]
        /\ previous_count[u] = 1
        /\ CountOf(items, name[u]) = 2

\* C12: count lower bound.  Every stored record has count >= 1 and a record
\* is created with count 1, whatever previous count the creating call read.
CountLowerBound ==
    [][/\ \A r \in items' : r.count >= 1
       /\ \A n \in Names :
            (SelectByName(items, n) = {} /\ SelectByName(items', n) # {})
                => CountOf(items', n) = 1]_vars

\* A call read a record, a clear removed it, and the call's upsert created it
\* anew: it answers "called 1 times previously" and the count is 1.
CountLowerBoundWitness ==
    \E t \in Tasks :
        /\ pc[t] = "ok"
        /\ Response(t).kind = "repeat"
        /\ Response(t).count >= 1
        /\ SelectByName(items, name[t]) = {Row(name[t], 1, now)}

\* C13: no half-applied update.  Whatever a call does, complete or abandoned
\* at either await, every step other than a clear leaves each name's record
\* as it was or fully updated: count raised by 1 (1 for a new record)
\* together with last_seen set to NOW().
NoHalfApplied ==
    [][~ClearStep =>
          \A n \in Names :
              \/ SelectByName(items', n) = SelectByName(items, n)
              \/ SelectByName(items', n) =
                    {Row(n, CountOf(items, n) + 1, now)}]_vars

\* A call was abandoned while its upsert was in flight, and the upsert was
\* applied to the existing record in full.
NoHalfAppliedWitness ==
    \E t \in Tasks :
        /\ pc[t] = "gone"
        /\ did[t] = 1
        /\ SelectByName(items, name[t]) = {Row(name[t], 2, 1)}

BoundedStaleness ==
    [][\A t \in Tasks :
          Completes(t) =>
              /\ <<previous_count[t], last_seen[t]>> \in window[t]
              /\ ~clearSeen[t] =>
                    /\ previous_count[t] <= CountOf(items, name[t])
                    /\ previous_count[t] < CountOf(items', name[t])]_vars

\* A call has returned "first visit" although a concurrent call had created
\* the record before this call's own upsert.
BoundedStalenessWitness ==
    \E t \in Tasks :
        /\ pc[t] = "ok"
        /\ Response(t).kind = "first"
        /\ previous_count[t] + 1 < CountOf(items, name[t])

====
